---- MODULE Spec2Model ----
(***************************************************************************)
(* Model of the synthetic marketing star-schema generator                  *)
(* (scripts/synth_data_gen.py) and of the KPI enrichment script            *)
(* (scripts/data_enrichment.py).                                           *)
(*                                                                         *)
(* Tables (DataFrames) are sequences of records, one record per row, in    *)
(* the row order pandas produces.  Paths are sequences of path components  *)
(* ('' is <<>>, '../docs' is <<"..", "docs">>).                            *)
(*                                                                         *)
(* Floating-point quantities are exact fixed-point integers:               *)
(*   seasonality        in tenths            (0.7 -> 7, 1.1 -> 11)         *)
(*   final_imps         in tenths of an impression                         *)
(*   ctrs               in 1/10000           (0.003 -> 30)                 *)
(*   cpcs               in 1/10000           (0.30 -> 3000)                *)
(*   spend              in 1/100 (cents)                                   *)
(*   conv_rates         in 1/100             (0.05 -> 5)                   *)
(*   video variance     in 1/100             (0.8 -> 80)                   *)
(***************************************************************************)
EXTENDS Integers, Sequences, FiniteSets, TLC

VARIABLES
    pc,            \* position of the running script
    has_arg,       \* generator: the caller passed output_dir
    output_dir,    \* generator: the value of the parameter output_dir
    dirs,          \* file system: absolute paths of the existing directories
    files,         \* file system: absolute path -> [columns, rows] of a CSV
    N,             \* generator: N = len(df_fact)
    columns,       \* generator: the columns of df_fact so far
    row,           \* generator: one row of df_fact, followed through step C
    master         \* enrichment: one row of df_master

vars == <<pc, has_arg, output_dir, dirs, files, N, columns, row, master>>

None == <<>>

(***************************************************************************)
(* Calendar arithmetic: datetime(...) + timedelta(days=x) and the .dt      *)
(* accessors, computed on proleptic Gregorian ordinals as datetime does.   *)
(***************************************************************************)
IsLeap(y) == (y % 4 = 0) /\ ((y % 100 # 0) \/ (y % 400 = 0))

\* length of month m in a leap or a common year
DaysInMonth(leap, m) ==
    IF m = 2 THEN (IF leap THEN 29 ELSE 28)
    ELSE IF m \in {4, 6, 9, 11} THEN 30 ELSE 31

\* number of days of the year that precede the first day of month m
RECURSIVE DaysBeforeMonth(_, _)
DaysBeforeMonth(leap, m) ==
    IF m <= 1 THEN 0
    ELSE DaysBeforeMonth(leap, m - 1) + DaysInMonth(leap, m - 1)

DaysBeforeYear(y) ==
    (y - 1) * 365 + ((y - 1) \div 4) - ((y - 1) \div 100) + ((y - 1) \div 400)

Ymd2Ord(y, m, d) == DaysBeforeYear(y) + DaysBeforeMonth(IsLeap(y), m) + d

\* ordinal -> (year, month, day), by 400/100/4/1-year cycles
Ord2Ymd(ord) ==
    LET n0   == ord - 1
        n400 == n0 \div 146097
        r400 == n0 % 146097
        n100 == r400 \div 36524
        r100 == r400 % 36524
        n4   == r100 \div 1461
        r4   == r100 % 1461
        n1   == r4 \div 365
        n    == r4 % 365
        y    == n400 * 400 + 1 + n100 * 100 + n4 * 4 + n1
        leap == (n1 = 3) /\ ((n4 # 24) \/ (n100 = 3))
        est  == (n + 50) \div 32
        m    == IF DaysBeforeMonth(leap, est) > n THEN est - 1 ELSE est
    IN  IF n1 = 4 \/ n100 = 4
        THEN [year |-> y - 1, month |-> 12, day |-> 31]
        ELSE [year |-> y, month |-> m,
              day |-> n - DaysBeforeMonth(leap, m) + 1]

\* date + timedelta(days = x)
AddDays(date, x) == Ord2Ymd(Ymd2Ord(date.year, date.month, date.day) + x)

\* Series.dt.dayofweek: Monday = 0 ... Sunday = 6
dayofweek(date) == (Ymd2Ord(date.year, date.month, date.day) + 6) % 7

\* Series.dt.quarter
quarter(date) == ((date.month - 1) \div 3) + 1

\* strftime('%b')
month_name(date) ==
    <<"Jan", "Feb", "Mar", "Apr", "May", "Jun",
      "Jul", "Aug", "Sep", "Oct", "Nov", "Dec">>[date.month]

\* zero-padded decimal digits of n, most significant first
RECURSIVE Digits(_, _)
Digits(n, width) ==
    IF width = 0 THEN <<>> ELSE Append(Digits(n \div 10, width - 1), n % 10)

\* strftime('%Y%m%d'): the eight characters of the formatted date
strftime_Ymd(date) ==
    Digits(date.year, 4) \o Digits(date.month, 2) \o Digits(date.day, 2)

\* astype(int) on a string of decimal digits
RECURSIVE astype_int(_)
astype_int(s) ==
    IF s = <<>> THEN 0
    ELSE astype_int(SubSeq(s, 1, Len(s) - 1)) * 10 + s[Len(s)]

(***************************************************************************)
(* I. Dimensions.  They are built from literals only, so each DataFrame is *)
(* a definition; the state records how far the script has got.            *)
(***************************************************************************)
NumDays == 456

start_date == [year |-> 2023, month |-> 1, day |-> 1]

dates_short == [x \in 1..(NumDays - 1) |-> AddDays(start_date, x - 1)]

\* dates[x + 1] is start_date + timedelta(days = x), x in range(456)
dates == [x \in 1..NumDays |-> AddDays(start_date, x - 1)]

is_weekend(date) == dayofweek(date) >= 5

dim_date ==
    [i \in 1..Len(dates) |->
        [date       |-> dates[i],
         date_key   |-> astype_int(strftime_Ymd(dates[i])),
         year       |-> dates[i].year,
         month      |-> dates[i].month,
         month_name |-> month_name(dates[i]),
         quarter    |-> quarter(dates[i]),
         is_weekend |-> is_weekend(dates[i])]]

dim_date_columns ==
    <<"date", "date_key", "year", "month", "month_name", "quarter", "is_weekend">>

sources_data ==
    << <<1, "Amazon Ad Server", "Programmatic">>,
       <<2, "StackAdapt", "Programmatic">>,
       <<3, "DV360", "Programmatic">>,
       <<4, "Search Ads 360", "Paid Search">>,
       <<5, "Bing Ads", "Paid Search">>,
       <<6, "Facebook", "Paid Social">>,
       <<7, "LinkedIn Ads", "Paid Social">>,
       <<8, "Organic Search", "Organic">> >>

dim_source ==
    [i \in 1..Len(sources_data) |->
        [source_id   |-> sources_data[i][1],
         source_name |-> sources_data[i][2],
         channel     |-> sources_data[i][3]]]

dim_source_columns == <<"source_id", "source_name", "channel">>

campaign_config ==
    << <<"Business-focused zero tolerance", "Programmatic", "Brand Awareness">>,
       <<"Profound intangible policy", "Programmatic", "Brand Awareness">>,
       <<"Networked value-added time-frame", "Programmatic", "Consideration">>,
       <<"Persistent 24/7 attitude", "Paid Social", "Lead Gen">>,
       <<"Centralized modular throughput", "Paid Social", "Conversion">>,
       <<"Integrated dedicated contingency", "Paid Search", "Conversion">>,
       <<"Automated uniform software", "Paid Search", "Lead Gen">>,
       <<"Cross-platform static hierarchy", "Organic", "Traffic">> >>

tiers == <<"_Tier1", "_Tier2">>

\* the nested loops over campaign_config and the two tiers; id_counter starts
\* at 1 and is incremented after every appended row
campaign_rows ==
    [k \in 1..(Len(campaign_config) * Len(tiers)) |->
        LET c == campaign_config[((k - 1) \div Len(tiers)) + 1]
            t == tiers[((k - 1) % Len(tiers)) + 1]
        IN  [campaign_id   |-> k,
             campaign_name |-> c[1],
             ad_set_name   |-> <<c[1], t>>,
             channel_scope |-> c[2],
             objective     |-> c[3]]]

dim_campaign_columns ==
    <<"campaign_id", "campaign_name", "ad_set_name", "channel_scope", "objective">>

dim_campaign == campaign_rows

(***************************************************************************)
(* DataFrame operations                                                    *)
(***************************************************************************)
RECURSIVE Flatten(_)
Flatten(ss) == IF ss = <<>> THEN <<>> ELSE Head(ss) \o Flatten(Tail(ss))

\* df[[c1, c2, ...]]: every row restricted to the columns cols
Project(df, cols) ==
    [i \in 1..Len(df) |-> [c \in {cols[j] : j \in 1..Len(cols)} |-> df[i][c]]]

\* df.drop(columns = [col])
drop(df, col) ==
    [i \in 1..Len(df) |-> [c \in (DOMAIN df[i]) \ {col} |-> df[i][c]]]

drop_columns(cols, col) == SelectSeq(cols, LAMBDA c : c # col)

merge_all_pairs(left, right) ==
    Flatten([i \in 1..Len(left) |->
                [j \in 1..Len(right) |-> left[i] @@ right[j]]])

\* left.merge(right, left_on = 'channel_scope', right_on = 'channel'): inner
\* join, left rows in order, each with its matching right rows in order
merge_on_channel(left, right) ==
    Flatten([i \in 1..Len(left) |->
        LET match == SelectSeq(right,
                        LAMBDA r : r.channel = left[i].channel_scope)
        IN  [j \in 1..Len(match) |-> left[i] @@ match[j]]])

\* left.merge(right, how = 'cross'): every left row with every right row
merge_cross(left, right) ==
    [k \in 1..(Len(left) * Len(right)) |->
        left[((k - 1) \div Len(right)) + 1] @@ right[((k - 1) % Len(right)) + 1]]

(***************************************************************************)
(* II. Fact skeleton                                                       *)
(***************************************************************************)
\* Step A
schema_link == merge_on_channel(dim_campaign, dim_source)

schema_link_columns == dim_campaign_columns \o dim_source_columns

date_link_columns == <<"date_key", "is_weekend", "year", "month">>

\* Step B
df_fact == merge_cross(schema_link, Project(dim_date, date_link_columns))

skeleton_columns == schema_link_columns \o date_link_columns

metric_columns ==
    <<"impressions", "clicks", "spend", "conversions", "video_views">>

(***************************************************************************)
(* III. Export                                                             *)
(***************************************************************************)
fact_columns ==
    <<"date_key", "source_id", "campaign_id", "impressions", "clicks",
      "spend", "conversions", "video_views">>

fact_key_columns == <<"date_key", "source_id", "campaign_id">>

fact_final_keys_swapped(df) ==
    [i \in 1..Len(df) |->
        [date_key    |-> df[i].date_key,
         source_id   |-> df[i].campaign_id,
         campaign_id |-> df[i].source_id]]

\* fact_final = df_fact[fact_columns], its key columns (the metric columns
\* of a row are followed in row)
fact_final(df) == Project(df, fact_key_columns)

dim_campaign_final == drop(dim_campaign, "channel_scope")

dim_campaign_final_columns == drop_columns(dim_campaign_columns, "channel_scope")

(***************************************************************************)
(* os.path and the file system                                             *)
(***************************************************************************)
\* the working directory of the process
Cwd == <<"repo", "scripts">>

\* normalisation of an absolute path: '.' and '' vanish, '..' drops a level
RECURSIVE normpath(_, _)
normpath(acc, rest) ==
    IF rest = <<>> THEN acc
    ELSE LET c == Head(rest)
         IN  IF c = "." \/ c = "" THEN normpath(acc, Tail(rest))
             ELSE IF c = ".."
             THEN normpath(IF acc = <<>> THEN acc
                           ELSE SubSeq(acc, 1, Len(acc) - 1), Tail(rest))
             ELSE normpath(Append(acc, c), Tail(rest))

\* os.path.abspath of a relative path
abspath(p) == normpath(<<>>, Cwd \o p)

\* os.path.join(output_dir, name)
join(p, name) == Append(p, name)

dirname(ap) == SubSeq(ap, 1, Len(ap) - 1)

\* os.path.exists
exists(p) == abspath(p) \in dirs \/ abspath(p) \in DOMAIN files

makedirs_noop(p) == dirs

\* os.makedirs: the directory and every missing ancestor
makedirs(p) ==
    dirs \cup {SubSeq(abspath(p), 1, k) : k \in 0..Len(abspath(p))}

\* the file system after DataFrame.to_csv(path, index = False)
to_csv(path, cols, rows) ==
    [f \in (DOMAIN files) \cup {abspath(path)} |->
        IF f = abspath(path) THEN [columns |-> cols, rows |-> rows]
        ELSE files[f]]

\* open(path, 'w') succeeds only in an existing directory
writable(path) == dirname(abspath(path)) \in dirs

(***************************************************************************)
(* The generator, generate_marketing_star_schema(output_dir = '../docs')   *)
(***************************************************************************)
\* the default of the parameter output_dir
DefaultOutputDir == <<"..", "docs">>

\* the arguments a caller passes ('' , '.', 'out', 'out/csv', '../docs')
OutputDirArgs == {<<>>, <<".">>, <<"out">>, <<"out", "csv">>, <<"..", "docs">>}

\* directories that exist before the run: the working directory and its
\* ancestors, and possibly earlier output directories
BaseDirs == {SubSeq(Cwd, 1, k) : k \in 0..Len(Cwd)}

OptionalDirs == {<<"repo", "docs">>, <<"repo", "scripts", "out">>}

InitGenerator ==
    /\ pc = "dim_date"
    /\ has_arg \in BOOLEAN
    /\ output_dir \in (IF has_arg THEN OutputDirArgs ELSE {DefaultOutputDir})
    /\ dirs \in {BaseDirs \cup extra : extra \in SUBSET OptionalDirs}
    /\ files = <<>>
    /\ N = 0
    /\ columns = <<>>
    /\ row = None
    /\ master = None

Goto(from, to) ==
    /\ pc = from
    /\ pc' = to

BuildDimDate ==
    /\ Goto("dim_date", "dim_source")
    /\ UNCHANGED <<has_arg, output_dir, dirs, files, N, columns, row, master>>

BuildDimSource ==
    /\ Goto("dim_source", "dim_campaign")
    /\ UNCHANGED <<has_arg, output_dir, dirs, files, N, columns, row, master>>

BuildDimCampaign ==
    /\ Goto("dim_campaign", "link")
    /\ UNCHANGED <<has_arg, output_dir, dirs, files, N, columns, row, master>>

\* Step A: schema_link
LinkCampaignsToSources ==
    /\ Goto("link", "cross")
    /\ columns' = schema_link_columns
    /\ UNCHANGED <<has_arg, output_dir, dirs, files, N, row, master>>

\* Step B: df_fact and N = len(df_fact)
CrossJoinDates ==
    /\ Goto("cross", "metrics")
    /\ columns' = skeleton_columns
    /\ N' = Len(df_fact)
    /\ UNCHANGED <<has_arg, output_dir, dirs, files, row, master>>

\* Step C on the whole table: the five metric columns are assigned (their
\* values are followed row by row under SpecMetrics)
SynthesizeMetrics ==
    /\ Goto("metrics", "select")
    /\ columns' = columns \o metric_columns
    /\ UNCHANGED <<has_arg, output_dir, dirs, files, N, row, master>>

\* fact_final = df_fact[fact_columns]: a KeyError if a column is missing
SelectExportColumns ==
    /\ pc = "select"
    /\ pc' = IF \A i \in 1..Len(fact_columns) :
                    \E j \in 1..Len(columns) : columns[j] = fact_columns[i]
             THEN "makedirs" ELSE "failed"
    /\ UNCHANGED <<has_arg, output_dir, dirs, files, N, columns, row, master>>

\* if output_dir and not os.path.exists(output_dir): os.makedirs(output_dir)
EnsureOutputDir ==
    /\ Goto("makedirs", "write_dim_date")
    /\ dirs' = IF output_dir # <<>> /\ ~exists(output_dir)
               THEN makedirs(output_dir) ELSE dirs
    /\ UNCHANGED <<has_arg, output_dir, files, N, columns, row, master>>

\* one DataFrame.to_csv(os.path.join(output_dir, name), index = False)
Write(from, to, name, cols, rows) ==
    /\ pc = from
    /\ IF writable(join(output_dir, name))
       THEN /\ files' = to_csv(join(output_dir, name), cols, rows)
            /\ pc' = to
       ELSE /\ files' = files
            /\ pc' = "failed"
    /\ UNCHANGED <<has_arg, output_dir, dirs, N, columns, row, master>>

WriteDimDate ==
    Write("write_dim_date", "write_dim_source", "dim_date.csv",
          dim_date_columns, dim_date)

WriteDimSource ==
    Write("write_dim_source", "write_dim_campaign", "dim_source.csv",
          dim_source_columns, dim_source)

WriteDimCampaign ==
    Write("write_dim_campaign", "write_fact", "dim_campaign.csv",
          dim_campaign_final_columns, dim_campaign_final)

WriteFact ==
    Write("write_fact", "done", "fact_performance.csv",
          fact_columns, fact_final(df_fact))

Next ==
    \/ BuildDimDate
    \/ BuildDimSource
    \/ BuildDimCampaign
    \/ LinkCampaignsToSources
    \/ CrossJoinDates
    \/ SynthesizeMetrics
    \/ SelectExportColumns
    \/ EnsureOutputDir
    \/ WriteDimDate
    \/ WriteDimSource
    \/ WriteDimCampaign
    \/ WriteFact

Spec == InitGenerator /\ [][Next]_vars

(***************************************************************************)
(* Step C, the vectorized metric logic, followed on one row of df_fact.    *)
(* Every statement of step C acts on each row independently of the others. *)
(***************************************************************************)
\* number of steps between the sampled points of a random draw
Grid == 1

\* sampled values of a draw from lo to hi
Samples(lo, hi) == {lo + ((j * (hi - lo)) \div Grid) : j \in 0..Grid}

\* np.random.randint(lo, hi, size): integers in [lo, hi)
randint(lo, hi) == Samples(lo, hi - 1)

\* np.random.uniform(lo, hi, size), in the fixed-point unit of lo and hi
uniform(lo, hi) == Samples(lo, hi)

InitMetrics ==
    /\ pc = "seasonality"
    /\ has_arg = FALSE
    /\ output_dir = DefaultOutputDir
    /\ dirs = BaseDirs
    /\ files = <<>>
    /\ N = Len(df_fact)
    /\ columns = skeleton_columns
    /\ row \in {df_fact[i] : i \in 1..Len(df_fact)}
    /\ master = None

\* 1. and 2.: the seasonality mask and the zeroed metric arrays
SeasonalityMask ==
    /\ Goto("seasonality", "distributions")
    /\ row' = row @@ [seasonality |-> IF row.is_weekend THEN 7 ELSE 11,
                      base_imps |-> 0, ctrs |-> 0, cpcs |-> 0]
    /\ UNCHANGED <<has_arg, output_dir, dirs, files, N, columns, master>>

\* the draws of one masked block, written to the rows of the mask
Distribution(mask, imps, ctr, cpc) ==
    /\ Goto("distributions", "insights")
    /\ mask
    /\ \E b \in imps, t \in ctr, c \in cpc :
          row' = [row EXCEPT !.base_imps = b, !.ctrs = t, !.cpcs = c * 10]
    /\ UNCHANGED <<has_arg, output_dir, dirs, files, N, columns, master>>

\* 3. channel-specific distributions
DistributionProgrammatic ==
    Distribution(row.channel = "Programmatic",
                 randint(5000, 15000), uniform(30, 70), uniform(300, 900))

DistributionSearch ==
    Distribution(row.channel = "Paid Search",
                 randint(300, 1200), uniform(800, 1200), uniform(2500, 6000))

DistributionSocial ==
    Distribution(row.channel = "Paid Social",
                 randint(1000, 4000), uniform(150, 350), uniform(1500, 3500))

DistributionOrganic ==
    Distribution(row.channel = "Organic",
                 randint(1000, 3000), uniform(500, 800), {0})

mask_spike_july(r) ==
    r.year = 2023 /\ r.month = 7 /\ r.channel = "Programmatic"

mask_spike(r) ==
    r.year = 2023 /\ r.month = 8 /\ r.channel = "Programmatic"

mask_effic_november(r) ==
    r.year = 2023 /\ r.month = 11 /\ r.channel = "Paid Search"

mask_effic(r) ==
    r.year = 2023 /\ r.month = 12 /\ r.channel = "Paid Search"

\* 4. final_imps = base_imps * seasonality, the August spike and the
\* December efficiency
InjectInsights ==
    /\ Goto("insights", "final")
    /\ row' = [row EXCEPT !.cpcs = IF mask_effic(row) THEN (@ * 7) \div 10 ELSE @]
              @@ [final_imps |-> row.base_imps * row.seasonality
                                 * (IF mask_spike(row) THEN 3 ELSE 1)]
    /\ UNCHANGED <<has_arg, output_dir, dirs, files, N, columns, master>>

\* ndarray.astype(int) of a non-negative quantity x / unit: truncation
astype_int_of(x, unit) == x \div unit

\* Series.round(2) of x / unit cents: to the nearest, ties to even
round_half_even(x, unit) ==
    LET q == x \div unit
        r == x % unit
    IN  IF 2 * r < unit THEN q
        ELSE IF 2 * r > unit THEN q + 1
        ELSE IF q % 2 = 0 THEN q ELSE q + 1

\* (df_fact['impressions'] * ctrs).astype(int)
clicks_of(r, imps) == astype_int_of(imps * r.ctrs, 10000)

\* 5. impressions, clicks and spend
FinalCalculations ==
    /\ Goto("final", "conversions")
    /\ LET imps   == astype_int_of(row.final_imps, 10)
           clicks == clicks_of(row, imps)
       IN  row' = row @@ [impressions |-> imps,
                          clicks      |-> clicks,
                          spend       |-> round_half_even(clicks * row.cpcs, 100)]
    /\ UNCHANGED <<has_arg, output_dir, dirs, files, N, columns, master>>

conversions_of_impressions(r, rate) == astype_int_of(r.impressions * rate, 100)

\* (df_fact['clicks'] * conv_rates).astype(int)
conversions_of(r, rate) == astype_int_of(r.clicks * rate, 100)

\* conv_rates = np.random.uniform(0.05, 0.15, N)
Conversions ==
    /\ Goto("conversions", "video")
    /\ \E rate \in uniform(5, 15) :
          row' = row @@ [conversions |-> conversions_of(row, rate)]
    /\ UNCHANGED <<has_arg, output_dir, dirs, files, N, columns, master>>

mask_video(r) == r.channel \in {"Programmatic", "Paid Social"}

\* video_views: 0, and on the video channels 40% of the impressions times a
\* variance drawn from uniform(0.8, 1.2)
VideoViews ==
    /\ Goto("video", "synthesized")
    /\ \E v \in (IF mask_video(row) THEN uniform(80, 120) ELSE {0}) :
          row' = row @@ [video_views |->
                            IF mask_video(row)
                            THEN astype_int_of(row.impressions * 40 * v, 10000)
                            ELSE 0]
    /\ UNCHANGED <<has_arg, output_dir, dirs, files, N, columns, master>>

NextMetrics ==
    \/ SeasonalityMask
    \/ DistributionProgrammatic
    \/ DistributionSearch
    \/ DistributionSocial
    \/ DistributionOrganic
    \/ InjectInsights
    \/ FinalCalculations
    \/ Conversions
    \/ VideoViews

SpecMetrics == InitMetrics /\ [][NextMetrics]_vars

(***************************************************************************)
(* The enrichment script, followed on one row of df_master.  A float is    *)
(* [kind, num, den]: the exact quotient num / den, or nan, or inf.         *)
(***************************************************************************)
\* largest count read from a row of fact_performance.csv
MaxCount == 2

Num(a, b) == [kind |-> "num", num |-> a, den |-> b]

\* Series / Series: a zero denominator gives nan or inf and raises nothing
truediv(a, b) ==
    IF b # 0 THEN Num(a, b)
    ELSE IF a = 0 THEN [kind |-> "nan", num |-> 0, den |-> 0]
    ELSE [kind |-> "inf", num |-> 0, den |-> 0]

\* Series * k for a positive constant k
mul(x, k) == IF x.kind = "num" THEN Num(x.num * k, x.den) ELSE x

\* np.where(cond, x, y) on one row; x and y are both computed beforehand
np_where(cond, x, y) == IF cond THEN x ELSE y

CPM_unguarded(m) == mul(truediv(m.spend, m.impressions), 1000)

CPM(m) ==
    np_where(m.impressions > 0, mul(truediv(m.spend, m.impressions), 1000),
             Num(0, 1))

CTR(m) ==
    np_where(m.impressions > 0, mul(truediv(m.clicks, m.impressions), 100),
             Num(0, 1))

CPC(m) == np_where(m.clicks > 0, truediv(m.spend, m.clicks), Num(0, 1))

Conversion_Rate(m) ==
    np_where(m.clicks > 0, mul(truediv(m.conversions, m.clicks), 100),
             Num(0, 1))

MasterFile == <<"..", "docs", "marketing_analytics_master.csv">>

\* after the three left joins: the metrics of a row of df_master, as read
\* from fact_performance.csv (spend in cents)
InitEnrich ==
    /\ pc = "cpm"
    /\ has_arg = FALSE
    /\ output_dir = DefaultOutputDir
    /\ dirs = BaseDirs \cup {<<"repo", "docs">>}
    /\ files = <<>>
    /\ N = 0
    /\ columns = fact_columns
    /\ row = None
    /\ master \in [impressions : 0..MaxCount, clicks : 0..MaxCount,
                   spend : 0..MaxCount, conversions : 0..MaxCount]

ComputeKPI(from, to, kpi) ==
    /\ Goto(from, to)
    /\ master' = master @@ kpi
    /\ UNCHANGED <<has_arg, output_dir, dirs, files, N, columns, row>>

ComputeCPM == ComputeKPI("cpm", "ctr", [CPM |-> CPM(master)])

ComputeCTR == ComputeKPI("ctr", "cpc", [CTR |-> CTR(master)])

ComputeCPC == ComputeKPI("cpc", "conversion_rate", [CPC |-> CPC(master)])

ComputeConversionRate ==
    ComputeKPI("conversion_rate", "export",
               [Conversion_Rate |-> Conversion_Rate(master)])

ExportMaster ==
    /\ pc = "export"
    /\ IF writable(MasterFile)
       THEN /\ files' = to_csv(MasterFile,
                               columns \o <<"CPM", "CTR", "CPC", "Conversion_Rate">>,
                               <<master>>)
            /\ pc' = "exported"
       ELSE /\ files' = files
            /\ pc' = "failed"
    /\ UNCHANGED <<has_arg, output_dir, dirs, N, columns, row, master>>

NextEnrich ==
    \/ ComputeCPM
    \/ ComputeCTR
    \/ ComputeCPC
    \/ ComputeConversionRate
    \/ ExportMaster

SpecEnrich == InitEnrich /\ [][NextEnrich]_vars

(***************************************************************************)
(* Properties                                                              *)
(***************************************************************************)
Has(r, field) == field \in DOMAIN r

Rows(name) == files[abspath(join(output_dir, name))].rows

Cols(name) == files[abspath(join(output_dir, name))].columns

Column(rows, field) == {rows[i][field] : i \in 1..Len(rows)}

\* C1: in every row of the fact table impressions >= 0, clicks <= impressions,
\* spend >= 0 and conversions <= clicks, whatever the draws
C1_MetricBounds ==
    /\ Has(row, "impressions") =>
          /\ row.impressions >= 0
          /\ row.clicks <= row.impressions
          /\ row.spend >= 0
    /\ Has(row, "conversions") => row.conversions <= row.clicks

C1_Witness ==
    /\ pc = "synthesized"
    /\ row.conversions > 0
    /\ row.clicks < row.impressions
    /\ row.spend > 0

\* the campaign/source pairs that share a channel, counted on the dimensions
SharedChannelPairs ==
    Cardinality({p \in (1..Len(dim_campaign)) \X (1..Len(dim_source)) :
                    dim_campaign[p[1]].channel_scope = dim_source[p[2]].channel})

\* C2 (as stated): the fact table has (pairs sharing a channel) x (dates)
\* rows, which is 16 x 456 minus the mismatches the join filters out
C2_Original ==
    pc = "done" =>
        /\ Len(Rows("fact_performance.csv"))
              = SharedChannelPairs * Len(Rows("dim_date.csv"))
        /\ \E mismatches \in 0..(16 * 456) :
              Len(Rows("fact_performance.csv")) = 16 * 456 - mismatches

\* C2 (amended): the fact table has (pairs sharing a channel) x (dates) rows,
\* which is 36 x 456 = 16416 under the fixed configuration
C2_RowCount ==
    /\ pc \in {"metrics", "select", "makedirs", "write_dim_date",
               "write_dim_source", "write_dim_campaign", "write_fact", "done"}
          => N = 36 * 456
    /\ pc = "done" =>
          /\ Len(Rows("fact_performance.csv")) = N
          /\ Len(Rows("fact_performance.csv"))
                = SharedChannelPairs * Len(Rows("dim_date.csv"))

C2_Witness ==
    /\ pc = "done"
    /\ Len(Rows("fact_performance.csv")) = 16416
    /\ Len(Rows("fact_performance.csv")) > 16 * 456

\* C3: every exported fact row's campaign_id, source_id and date_key is the
\* key of a row of the exported campaign, source and date dimension
C3_ReferentialIntegrity ==
    pc = "done" =>
        LET campaign_ids == Column(Rows("dim_campaign.csv"), "campaign_id")
            source_ids   == Column(Rows("dim_source.csv"), "source_id")
            date_keys    == Column(Rows("dim_date.csv"), "date_key")
            fact         == Rows("fact_performance.csv")
        IN  \A i \in 1..Len(fact) :
                /\ fact[i].campaign_id \in campaign_ids
                /\ fact[i].source_id \in source_ids
                /\ fact[i].date_key \in date_keys

C3_Witness ==
    /\ pc = "done"
    /\ Len(Rows("fact_performance.csv")) > 0
    /\ \E i \in 1..Len(Rows("fact_performance.csv")) :
          Rows("fact_performance.csv")[i].campaign_id = 16

\* C4: the channel of a fact row's source equals the channel_scope of its
\* campaign, and a campaign_id has exactly one channel_scope
C4_ChannelConsistency ==
    /\ \A a, b \in 1..Len(dim_campaign) :
          dim_campaign[a].campaign_id = dim_campaign[b].campaign_id
             => dim_campaign[a].channel_scope = dim_campaign[b].channel_scope
    /\ pc = "done" =>
          LET fact  == Rows("fact_performance.csv")
              pairs == {<<fact[i].campaign_id, fact[i].source_id>> :
                            i \in 1..Len(fact)}
          IN  \A p \in pairs :
                \A c \in 1..Len(dim_campaign), s \in 1..Len(Rows("dim_source.csv")) :
                    (/\ dim_campaign[c].campaign_id = p[1]
                     /\ Rows("dim_source.csv")[s].source_id = p[2])
                    => Rows("dim_source.csv")[s].channel
                          = dim_campaign[c].channel_scope

C4_Witness ==
    /\ pc = "done"
    /\ \E i \in 1..Len(Rows("fact_performance.csv")) :
          /\ Rows("fact_performance.csv")[i].campaign_id = 11
          /\ Rows("fact_performance.csv")[i].source_id = 5

\* C5: CPM and CTR are 0 when impressions is 0, CPC and Conversion_Rate are
\* 0 when clicks is 0, and no KPI is NaN or infinite
IsZero(x) == x.kind = "num" /\ x.num = 0

C5_GuardedKPIs ==
    /\ pc # "failed"
    /\ Has(master, "CPM") =>
          /\ master.CPM.kind = "num"
          /\ master.impressions = 0 => IsZero(master.CPM)
    /\ Has(master, "CTR") =>
          /\ master.CTR.kind = "num"
          /\ master.impressions = 0 => IsZero(master.CTR)
    /\ Has(master, "CPC") =>
          /\ master.CPC.kind = "num"
          /\ master.clicks = 0 => IsZero(master.CPC)
    /\ Has(master, "Conversion_Rate") =>
          /\ master.Conversion_Rate.kind = "num"
          /\ master.clicks = 0 => IsZero(master.Conversion_Rate)

C5_Witness ==
    /\ pc = "exported"
    /\ master.impressions = 0
    /\ master.clicks = 0
    /\ master.spend > 0
    /\ IsZero(master.CPM)
    /\ IsZero(master.CPC)

\* the day after a calendar date, from the lengths of the months
CalendarSuccessor(d) ==
    LET len == <<31, IF d.year = 2024 THEN 29 ELSE 28, 31, 30, 31, 30,
                 31, 31, 30, 31, 30, 31>>[d.month]
    IN  IF d.day < len THEN [d EXCEPT !.day = d.day + 1]
        ELSE IF d.month < 12 THEN [d EXCEPT !.month = d.month + 1, !.day = 1]
        ELSE [year |-> d.year + 1, month |-> 1, day |-> 1]

\* C6: the date dimension has 456 rows on consecutive calendar days from
\* 2023-01-01 to 2024-03-31, and is_weekend holds exactly on the Saturdays
\* and Sundays (2023-01-01 is a Sunday)
C6_DateDimension ==
    pc # "dim_date" =>
        /\ Len(dim_date) = 456
        /\ dim_date[1].date = [year |-> 2023, month |-> 1, day |-> 1]
        /\ \A i \in 1..(Len(dim_date) - 1) :
              dim_date[i + 1].date = CalendarSuccessor(dim_date[i].date)
        /\ dim_date[Len(dim_date)].date = [year |-> 2024, month |-> 3, day |-> 31]
        /\ dim_date[Len(dim_date)].date_key = 20240331
        /\ \A i \in 1..Len(dim_date) :
              dim_date[i].is_weekend <=> ((i - 1) % 7 \in {0, 6})
        /\ pc = "done" => Rows("dim_date.csv") = dim_date

C6_Witness ==
    /\ pc = "done"
    /\ Rows("dim_date.csv")[456].date_key = 20240331
    /\ Rows("dim_date.csv")[455].is_weekend
    /\ ~Rows("dim_date.csv")[454].is_weekend

Dec2023(r) == r.date_key \div 100 = 202312

Nov2023(r) == r.date_key \div 100 = 202311

\* C7: the drawn CPC (2.50 to 6.00) of a Paid Search row of December 2023 is
\* multiplied by 0.7, that of a Paid Search row of November 2023 is kept,
\* and spend is clicks x the resulting CPC
C7_DecemberEfficiency ==
    /\ [][(pc = "insights" /\ row.channel = "Paid Search") =>
            /\ row.cpcs \in 25000..60000
            /\ Dec2023(row) => row'.cpcs * 10 = row.cpcs * 7
            /\ Nov2023(row) => row'.cpcs = row.cpcs]_vars
    /\ [](Has(row, "spend") =>
            row.spend = round_half_even(row.clicks * row.cpcs, 100))

C7_Witness ==
    /\ pc = "conversions"
    /\ row.channel = "Paid Search"
    /\ Dec2023(row)
    /\ row.cpcs = 17500
    /\ row.spend = round_half_even(row.clicks * 17500, 100)

\* C8: the output directory exists before any file is written, and on
\* completion it holds the four files, fact_performance.csv with the eight
\* key and metric columns and dim_campaign.csv without channel_scope
C8_Export ==
    /\ pc \in {"write_dim_date", "write_dim_source", "write_dim_campaign",
               "write_fact", "done"} => abspath(output_dir) \in dirs
    /\ \A f \in DOMAIN files : dirname(f) \in dirs
    /\ pc # "failed"
    /\ pc = "done" =>
          /\ {f \in DOMAIN files : dirname(f) = abspath(output_dir)}
                = {abspath(join(output_dir, name)) :
                      name \in {"dim_date.csv", "dim_source.csv",
                                "dim_campaign.csv", "fact_performance.csv"}}
          /\ Cols("fact_performance.csv")
                = <<"date_key", "source_id", "campaign_id", "impressions",
                    "clicks", "spend", "conversions", "video_views">>
          /\ \A i \in 1..Len(Cols("dim_campaign.csv")) :
                Cols("dim_campaign.csv")[i] # "channel_scope"
          /\ \A i \in 1..Len(Rows("dim_campaign.csv")) :
                ~Has(Rows("dim_campaign.csv")[i], "channel_scope")

C8_Witness ==
    /\ pc = "done"
    /\ output_dir = <<"out", "csv">>
    /\ <<"repo", "scripts", "out", "csv">> \in dirs
    /\ Cardinality(DOMAIN files) = 4

\* C9: called without output_dir, the four files are saved to the current
\* working directory
C9_DefaultIsCwd ==
    (pc = "done" /\ ~has_arg) => \A f \in DOMAIN files : dirname(f) = Cwd

\* the date keys of the Saturdays and Sundays (2023-01-01 is a Sunday)
WeekendDateKeys ==
    {dim_date[i].date_key : i \in {j \in 1..Len(dim_date) : (j - 1) % 7 \in {0, 6}}}

\* C10: impressions = int(base_imps x seasonality x 3) on exactly the
\* Programmatic rows of August 2023 and int(base_imps x seasonality) on every
\* other row, seasonality being 0.7 on weekends and 1.1 otherwise
C10_AugustSpike ==
    Has(row, "impressions") =>
        LET weekend == row.date_key \in WeekendDateKeys
            s       == IF weekend THEN 7 ELSE 11
            august  == /\ row.channel = "Programmatic"
                       /\ row.date_key \div 100 = 202308
        IN  row.impressions
               = (row.base_imps * s * (IF august THEN 3 ELSE 1)) \div 10

C10_Witness ==
    /\ pc = "synthesized"
    /\ row.channel = "Programmatic"
    /\ row.date_key = 20230805
    /\ row.base_imps = 5000
    /\ row.impressions = 10500

====
